---- MODULE Spec2Model ----
(***************************************************************************)
(* A model of the HTTP API of src/main.py: fifteen routes declared on one  *)
(* FastAPI application, the validation the framework performs from each    *)
(* handler's signature, and each handler's body.                           *)
(*                                                                         *)
(* Every handler is an `async def` without an await, so a request is       *)
(* validated and handled in one step of the event loop: one action per     *)
(* handler, and a behaviour is an arbitrary sequence of requests.          *)
(*                                                                         *)
(* Encoding of values                                                      *)
(*   - None is <<>>, a supplied value v is <<v>>;                          *)
(*   - a piece of request text (a path segment, a query or header value)   *)
(*     is a record [kind, s, n]: Str(s) is the text s, Num(n) the decimal  *)
(*     text of the integer n and Half(n) the decimal text of n/2; parsing  *)
(*     a text as a Python int succeeds on Num only, as a float on Num and  *)
(*     Half;                                                               *)
(*   - a path "/a/b" is the sequence of its segments, "/" is <<Str("")>>   *)
(*     and a trailing slash is a last segment Str("");                     *)
(*   - floats are integers: size counts halves (10.5 is 21 halves), price  *)
(*     and tax count whole units;                                          *)
(*   - a datetime is [t, aware]: an instant of the range 0..MaxInstant     *)
(*     that stands for datetime.min..datetime.max, and whether it carries  *)
(*     a UTC offset; a timedelta is an integer.                            *)
(***************************************************************************)
EXTENDS Integers, Sequences, FiniteSets, TLC

VARIABLES fake_items_db, request, handler, status, response

vars == <<fake_items_db, request, handler, status, response>>

(* ------------------------------------------------------------ bounds --- *)

\* the largest instant a datetime holds (datetime.max), instants start at 0
MaxInstant == 1
\* the largest magnitude of a timedelta in a request
MaxDelta == 1
\* skip and limit of GET /items range over -MaxSkip..MaxSkip
MaxSkip == 4

(* ------------------------------------------------------------ values --- *)

None == <<>>

Some(v) == <<v>>

Str(s) == [kind |-> "str", s |-> s, n |-> 0]

Num(n) == [kind |-> "int", s |-> "", n |-> n]

\* the decimal text of n/2, as "10.5" for n = 21
Half(n) == [kind |-> "half", s |-> "", n |-> n]

\* int(text): pydantic's conversion of a path or query text to int
IsInt(txt) == txt.kind = "int"

\* Python truthiness of an optional str: None and "" are falsy
TruthyStr(o) == o # None /\ o[1] # Str("")

\* Python truthiness of an int: 0 is falsy
TruthyInt(n) == n # 0

\* Python truthiness of an optional model instance: only None is falsy
TruthyModel(o) == o # None

RECURSIVE Digits(_)
\* the number of decimal digits of n >= 0
Digits(n) == IF n < 10 THEN 1 ELSE 1 + Digits(n \div 10)

\* len() of a text (a Half text has two more characters, ".5")
TextLen(txt) ==
  IF txt.kind = "str" THEN Len(txt.s)
  ELSE LET m == IF txt.kind = "int" THEN txt.n ELSE txt.n \div 2 IN
       (IF txt.n < 0 THEN 1 + Digits(-m) ELSE Digits(m))
         + (IF txt.kind = "half" THEN 2 ELSE 0)

\* float(text), in halves
FloatOf(txt) == IF txt.kind = "int" THEN 2 * txt.n ELSE txt.n

IsFloat(txt) == txt.kind \in {"int", "half"}

\* the texts pydantic reads as a bool
BoolTrue == {Num(1), Str("on"), Str("t"), Str("true"), Str("y"), Str("yes")}

BoolFalse == {Num(0), Str("off"), Str("f"), Str("false"), Str("n"), Str("no")}

IsBool(txt) == txt \in BoolTrue \cup BoolFalse

BoolOf(txt) == txt \in BoolTrue

RECURSIVE Rep(_, _)
\* the string of n copies of c
Rep(c, n) ==
  IF n = 0 THEN ""
  ELSE LET half == Rep(c, n \div 2) IN
       half \o half \o (IF n % 2 = 1 THEN c ELSE "")

(* ------------------------------------------------------------ routes --- *)

Lit(s) == [kind |-> "lit", name |-> s]

Param(s) == [kind |-> "param", name |-> s]

PathParam(s) == [kind |-> "path", name |-> s]

\* the routes of `app`, in the order the decorators register them
Routes ==
  << [method |-> "POST", pattern |-> <<Lit("items")>>, endpoint |-> "create_item"],
     [method |-> "GET", pattern |-> <<Lit("")>>, endpoint |-> "root"],
     [method |-> "GET", pattern |-> <<Lit("items"), Param("item_id")>>,
      endpoint |-> "read_item"],
     [method |-> "GET", pattern |-> <<Lit("shots"), Param("shot_id")>>,
      endpoint |-> "read_user_item"],
     [method |-> "PUT", pattern |-> <<Lit("items"), Param("item_id")>>,
      endpoint |-> "update_item"],
     [method |-> "POST", pattern |-> <<Lit("shots")>>, endpoint |-> "create_shots"],
     [method |-> "PUT", pattern |-> <<Lit("shots"), Param("shot_id")>>,
      endpoint |-> "update_shots"],
     [method |-> "GET", pattern |-> <<Lit("items")>>,
      endpoint |-> "read_item_with_params"],
     [method |-> "GET", pattern |-> <<Lit("users"), Lit("me")>>,
      endpoint |-> "read_user_me"],
     [method |-> "GET",
      pattern |-> <<Lit("users"), Param("user_id"), Lit("items"), Param("item_id")>>,
      endpoint |-> "read_user_item2"],
     [method |-> "GET", pattern |-> <<Lit("users"), Param("user_id")>>,
      endpoint |-> "read_user"],
     [method |-> "GET", pattern |-> <<Lit("models"), Param("model_name")>>,
      endpoint |-> "get_model"],
     [method |-> "GET", pattern |-> <<Lit("files"), PathParam("file_path")>>,
      endpoint |-> "read_file"],
     [method |-> "POST", pattern |-> <<Lit("index-weights"), Lit("")>>,
      endpoint |-> "create_index_weights"],
     [method |-> "GET", pattern |-> <<Lit("header")>>, endpoint |-> "get_header"] >>

RECURSIVE PathMatches(_, _)
\* a route's path regex against a request path: a literal matches its own
\* text, {name} one non-empty segment, {name:path} the whole rest
PathMatches(pattern, path) ==
  IF pattern = <<>> THEN path = <<>>
  ELSE IF path = <<>> THEN FALSE
  ELSE LET p == Head(pattern) IN
       CASE p.kind = "lit" ->
              Head(path) = Str(p.name) /\ PathMatches(Tail(pattern), Tail(path))
         [] p.kind = "param" ->
              Head(path) # Str("") /\ PathMatches(Tail(pattern), Tail(path))
         [] OTHER -> TRUE

FullMatches(method, path) ==
  {i \in 1..Len(Routes) :
     Routes[i].method = method /\ PathMatches(Routes[i].pattern, path)}

PartialMatches(path) ==
  {i \in 1..Len(Routes) : PathMatches(Routes[i].pattern, path)}

\* a router where the last matching route wins
Last(S) == CHOOSE i \in S : \A j \in S : i >= j

\* declaration order: of the routes that match, the one registered first
First(S) == CHOOSE i \in S : \A j \in S : i <= j

\* the path with its trailing slash added or removed (redirect_slashes)
SlashToggled(path) ==
  IF path[Len(path)] = Str("") THEN SubSeq(path, 1, Len(path) - 1)
  ELSE Append(path, Str(""))

\* the router: the first route, in declaration order, whose path and method
\* match; a path that only matches routes of other methods is a 405, a path
\* that matches once its trailing slash is toggled is redirected, else 404
Dispatch(method, path) ==
  IF FullMatches(method, path) # {} THEN Routes[First(FullMatches(method, path))].endpoint
  ELSE IF PartialMatches(path) # {} THEN "405"
  ELSE IF path # <<Str("")>> /\ PartialMatches(SlashToggled(path)) # {} THEN "307"
  ELSE "404"

(* ---------------------------------------------------------- requests --- *)

EmptyQuery ==
  [q |-> None, size |-> None, short |-> None, needy |-> None,
   skip |-> None, limit |-> None]

EmptyHeaders == [user_agent |-> None, api_key |-> None]

\* a request without a body; a JSON object body has present = TRUE and the
\* keys it holds: the named keys, and in `weights` its other entries
NoBody ==
  [present |-> FALSE, name |-> None, description |-> None, price |-> None,
   tax |-> None, thumbnail_url |-> None, image_url |-> None, item |-> None,
   user |-> None, importance |-> None, start_datetime |-> None,
   end_datetime |-> None, repeat_at |-> None, process_after |-> None,
   weights |-> {}]

EmptyObject == [NoBody EXCEPT !.present = TRUE]

Req(method, path, query, headers, body) ==
  [method |-> method, path |-> path, query |-> query, headers |-> headers,
   body |-> body]

Get(path, query) == Req("GET", path, query, EmptyHeaders, NoBody)

ItemJson(name, description, price, tax) ==
  [name |-> name, description |-> description, price |-> price, tax |-> tax]

UserJson(username, full_name) == [username |-> username, full_name |-> full_name]

Url(scheme, host) == [scheme |-> scheme, host |-> host]

\* a JSON value for a datetime field: a text that parses (valid) to the
\* instant t, with or without a UTC offset, or one that does not
DateJson(valid, t, aware) == [valid |-> valid, t |-> t, aware |-> aware]

CanonicalUuid == "f902674b-0526-4a35-884a-b2eb809bd7ab"

UpperUuid == "F902674B-0526-4A35-884A-B2EB809BD7AB"

OptOf(S) == {None} \cup {Some(v) : v \in S}

ItemIdTexts ==
  {Num(-1), Num(0), Num(1), Num(5), Num(1000), Num(1001), Str("abc")}

QTexts == OptOf({Str(""), Str("x")})

ShortTexts == OptOf({Str("true"), Str("maybe")})

SizeTexts ==
  OptOf({Half(-21), Num(-10), Num(0), Num(10), Half(21), Num(11), Str("big")})

ItemJsons ==
  {ItemJson(n, d, p, t) :
     n \in OptOf({"Foo"}),
     d \in OptOf({"A very nice Item", Rep("a", 300), Rep("a", 301)}),
     p \in OptOf({-1, 0, 1, 35}),
     t \in OptOf({3})}

GoodItem == ItemJson(Some("Foo"), Some("A very nice Item"), Some(35), Some(3))

CreateItemRequests ==
  {Req("POST", <<Str("items")>>, EmptyQuery, EmptyHeaders,
       [EmptyObject EXCEPT !.name = j.name, !.description = j.description,
                           !.price = j.price, !.tax = j.tax]) : j \in ItemJsons}
  \cup {Req("POST", <<Str("items")>>, EmptyQuery, EmptyHeaders, NoBody)}

RootRequests == {Get(<<Str("")>>, EmptyQuery)}

ReadItemRequests ==
  {Get(<<Str("items"), i>>, [EmptyQuery EXCEPT !.q = q, !.short = s]) :
     i \in ItemIdTexts, q \in QTexts, s \in ShortTexts}
  \cup {Get(<<Str("items"), i>>, [EmptyQuery EXCEPT !.size = z]) :
          i \in {Num(0), Num(5)}, z \in SizeTexts}

ReadUserItemRequests ==
  {Get(<<Str("shots"), i>>, [EmptyQuery EXCEPT !.needy = n]) :
     i \in {Str("abc"), Num(5)}, n \in OptOf({Str(""), Str("x")})}

UpdateItemRequests ==
  {Req("PUT", <<Str("items"), i>>, [EmptyQuery EXCEPT !.q = q], EmptyHeaders,
       [EmptyObject EXCEPT !.importance = m]) :
     i \in ItemIdTexts, q \in QTexts, m \in OptOf({-3, 0, 5})}
  \cup {Req("PUT", <<Str("items"), i>>, EmptyQuery, EmptyHeaders,
            [EmptyObject EXCEPT !.item = it, !.user = u, !.importance = Some(m)]) :
          i \in {Num(0), Num(5)},
          it \in OptOf({GoodItem, [GoodItem EXCEPT !.price = Some(0)]}),
          u \in OptOf({UserJson(Some("bob"), None), UserJson(None, Some("Bob B"))}),
          m \in {0, 5}}
  \cup {Req("PUT", <<Str("items"), Num(5)>>, EmptyQuery, EmptyHeaders, NoBody)}

Urls ==
  OptOf({Url("https", "ricepotato.bitbucket.io"), Url("ftp", "ricepotato.bitbucket.io")})

CreateShotsRequests ==
  {Req("POST", <<Str("shots")>>, EmptyQuery, EmptyHeaders,
       [EmptyObject EXCEPT !.name = n, !.thumbnail_url = t, !.image_url = i]) :
     n \in OptOf({"A normal example"}), t \in Urls, i \in Urls}
  \cup {Req("POST", <<Str("shots")>>, EmptyQuery, EmptyHeaders, NoBody)}

DateJsons ==
  OptOf({DateJson(TRUE, t, a) : t \in 0..MaxInstant, a \in BOOLEAN})

UpdateShotsRequests ==
  {Req("PUT", <<Str("shots"), Str(CanonicalUuid)>>, EmptyQuery, EmptyHeaders,
       [EmptyObject EXCEPT !.start_datetime = s, !.end_datetime = e,
                           !.repeat_at = r, !.process_after = p]) :
     s \in DateJsons, e \in DateJsons, r \in OptOf({12}),
     p \in OptOf(-MaxDelta..MaxDelta)}
  \cup {Req("PUT", <<Str("shots"), i>>, EmptyQuery, EmptyHeaders,
            [EmptyObject EXCEPT !.start_datetime = s,
                                !.end_datetime = Some(DateJson(TRUE, 0, FALSE)),
                                !.process_after = Some(0)]) :
          i \in {Str(UpperUuid), Str("abc"), Num(5)},
          s \in {Some(DateJson(TRUE, 0, FALSE)), Some(DateJson(FALSE, 0, FALSE))}}
  \cup {Req("PUT", <<Str("shots"), Str(CanonicalUuid)>>, EmptyQuery, EmptyHeaders,
            NoBody)}

PageTexts ==
  OptOf({Num(n) : n \in (-MaxSkip..MaxSkip) \cup {10}} \cup {Str("x")})

ReadItemWithParamsRequests ==
  {Get(<<Str("items")>>, [EmptyQuery EXCEPT !.skip = s, !.limit = l]) :
     s \in PageTexts, l \in PageTexts}

UserTexts == {Str("me"), Str("Me"), Str("bob"), Num(7)}

UsersRequests ==
  {Get(<<Str("users"), u>>, EmptyQuery) : u \in UserTexts}
  \cup {Get(<<Str("users"), u, Str("items"), i>>,
            [EmptyQuery EXCEPT !.q = q, !.short = s]) :
          u \in UserTexts \ {Str("Me")}, i \in {Str("x"), Num(3)},
          q \in OptOf({Str(""), Str("ab"), Str("abc"), Num(12), Num(-12),
                       Str(Rep("q", 50)), Str(Rep("q", 51))}),
          s \in ShortTexts}

ModelsRequests ==
  {Get(<<Str("models"), m>>, EmptyQuery) :
     m \in {Str("alexnet"), Str("resnet"), Str("lenet"), Str("vgg"),
            Str("AlexNet"), Num(3)}}

FilesRequests ==
  {Get(p, EmptyQuery) :
     p \in {<<Str("files"), Str("")>>, <<Str("files"), Str("a.txt")>>,
            <<Str("files"), Str("home"), Str("a.txt")>>,
            <<Str("files"), Str("home"), Str("")>>}}

IndexWeightsRequests ==
  {Req("POST", <<Str("index-weights"), Str("")>>, EmptyQuery, EmptyHeaders,
       [EmptyObject EXCEPT !.weights = w]) :
     w \in SUBSET {<<Num(1), 5>>, <<Num(2), 7>>, <<Str("a"), 5>>}}
  \cup {Req("POST", <<Str("index-weights"), Str("")>>, EmptyQuery, EmptyHeaders, b) :
          b \in {NoBody, [EmptyObject EXCEPT !.name = Some("Foo")]}}

HeaderRequests ==
  {Req("GET", <<Str("header")>>, EmptyQuery,
       [user_agent |-> u, api_key |-> k], NoBody) :
     u \in OptOf({Str("curl/8.0")}), k \in OptOf({Str("secret"), Num(42)})}

\* requests no route serves: unknown paths, a known path under another
\* method, and paths that differ from a route's by the trailing slash
UnroutedRequests ==
  {Req(m, p, EmptyQuery, EmptyHeaders, NoBody) :
     m \in {"GET", "POST", "PUT", "DELETE"},
     p \in {<<Str("nothing")>>, <<Str("users")>>, <<Str("users"), Str("me")>>,
            <<Str("users"), Str("")>>, <<Str("items")>>, <<Str("items"), Str("")>>,
            <<Str("items"), Num(5)>>, <<Str("index-weights")>>, <<Str("files")>>,
            <<Str("header"), Str("")>>, <<Str("")>>}}

Requests ==
  CreateItemRequests \cup RootRequests \cup ReadItemRequests
    \cup ReadUserItemRequests \cup UpdateItemRequests \cup CreateShotsRequests
    \cup UpdateShotsRequests \cup ReadItemWithParamsRequests \cup UsersRequests
    \cup ModelsRequests \cup FilesRequests \cup IndexWeightsRequests
    \cup HeaderRequests \cup UnroutedRequests

Endpoint(r) == Dispatch(r.method, r.path)

\* the requests the router hands to each endpoint
Routed == [e \in {Routes[i].endpoint : i \in 1..Len(Routes)} \cup {"405", "307", "404"}
             |-> {r \in Requests : Endpoint(r) = e}]

(* -------------------------------------------------------- validation --- *)

Err(loc, type) == [loc |-> loc, type |-> type]

Ok(body) == [status |-> 200, body |-> body]

\* an exception that leaves a handler: the server answers 500
Raised(exc) == [status |-> 500, body |-> [error |-> exc]]

\* an int parameter at loc, with its bounds: gt/ge lo (strict or not), le hi
IntErrors(loc, txt, strict, lo, hi) ==
  IF ~IsInt(txt) THEN {Err(loc, "type_error.integer")}
  ELSE IF strict /\ txt.n <= lo THEN {Err(loc, "value_error.number.not_gt")}
  ELSE IF ~strict /\ txt.n < lo THEN {Err(loc, "value_error.number.not_ge")}
  ELSE IF txt.n > hi THEN {Err(loc, "value_error.number.not_le")}
  ELSE {}

\* an int parameter without bounds
PlainIntErrors(loc, o) ==
  IF o # None /\ ~IsInt(o[1]) THEN {Err(loc, "type_error.integer")} ELSE {}

\* an optional bool query parameter
BoolErrors(loc, o) ==
  IF o # None /\ ~IsBool(o[1]) THEN {Err(loc, "type_error.bool")} ELSE {}

\* a bool query parameter's value, False by default
BoolValue(o) == IF o = None THEN FALSE ELSE BoolOf(o[1])

DescriptionMaxLength == 300

PriceGt == 0

\* Item with price declared ge=0 in place of gt=0
Item_errors_ge(loc, j) ==
  (IF j.name = None THEN {Err(loc \o <<"name">>, "value_error.missing")} ELSE {})
  \cup (IF j.description # None /\ Len(j.description[1]) > DescriptionMaxLength
        THEN {Err(loc \o <<"description">>, "value_error.any_str.max_length")}
        ELSE {})
  \cup (IF j.price = None THEN {Err(loc \o <<"price">>, "value_error.missing")}
        ELSE IF j.price[1] < PriceGt
        THEN {Err(loc \o <<"price">>, "value_error.number.not_ge")}
        ELSE {})

\* class Item: the errors of a JSON object read as an Item
Item_errors(loc, j) ==
  (IF j.name = None THEN {Err(loc \o <<"name">>, "value_error.missing")} ELSE {})
  \cup (IF j.description # None /\ Len(j.description[1]) > DescriptionMaxLength
        THEN {Err(loc \o <<"description">>, "value_error.any_str.max_length")}
        ELSE {})
  \cup (IF j.price = None THEN {Err(loc \o <<"price">>, "value_error.missing")}
        ELSE IF j.price[1] <= PriceGt
        THEN {Err(loc \o <<"price">>, "value_error.number.not_gt")}
        ELSE {})

\* the Item a valid JSON object is read as
Item(j) ==
  [name |-> j.name[1], description |-> j.description, price |-> j.price[1],
   tax |-> j.tax]

\* class User
User_errors(loc, j) ==
  IF j.username = None THEN {Err(loc \o <<"username">>, "value_error.missing")}
  ELSE {}

User(j) == [username |-> j.username[1], full_name |-> j.full_name]

\* HttpUrl
UrlErrors(loc, o) ==
  IF o = None THEN {Err(loc, "value_error.missing")}
  ELSE IF o[1].scheme \notin {"http", "https"} THEN {Err(loc, "value_error.url.scheme")}
  ELSE IF o[1].host = "" THEN {Err(loc, "value_error.url.host")}
  ELSE {}

\* class Shot
Shot_errors(loc, b) ==
  (IF b.name = None THEN {Err(loc \o <<"name">>, "value_error.missing")} ELSE {})
  \cup UrlErrors(loc \o <<"thumbnail_url">>, b.thumbnail_url)
  \cup UrlErrors(loc \o <<"image_url">>, b.image_url)

Shot(b) ==
  [name |-> b.name[1], thumbnail_url |-> b.thumbnail_url[1],
   image_url |-> b.image_url[1]]

\* class ModelName
ModelName == {"alexnet", "resnet", "lenet"}

\* UUID(text): every spelling of a UUID is read as the same value
IsUuid(txt) == txt \in {Str(CanonicalUuid), Str(UpperUuid)}

UuidOf(txt) == CanonicalUuid

\* an optional datetime body field
DateErrors(loc, o) ==
  IF o # None /\ ~o[1].valid THEN {Err(loc, "value_error.datetime")} ELSE {}

\* the datetime (or None) a valid field is read as
DateOf(o) == IF o = None THEN None ELSE Some([t |-> o[1].t, aware |-> o[1].aware])

\* the top-level fields of a body that is itself an Item
BodyItem(b) == ItemJson(b.name, b.description, b.price, b.tax)

\* a required body that is one model
BodyErrors(b, errors) ==
  IF ~b.present THEN {Err(<<"body">>, "value_error.missing")} ELSE errors

(* ---------------------------------------------------------- handlers --- *)

InitialItems ==
  <<[item_name |-> "Foo"], [item_name |-> "Bar"], [item_name |-> "Baz"]>>

NoRequest == Req("", <<>>, EmptyQuery, EmptyHeaders, NoBody)

Init ==
  /\ fake_items_db = InitialItems
  /\ request = NoRequest
  /\ handler = "none"
  /\ status = 0
  /\ response = <<>>

\* the framework's handling of request r for endpoint `name`: a request with
\* validation errors is answered 422 and the handler is not called; else the
\* handler runs and `result` is what it returns or raises
Serve(r, name, errors, result) ==
  /\ request' = r
  /\ IF errors # {}
     THEN /\ handler' = "none"
          /\ status' = 422
          /\ response' = [detail |-> errors]
     ELSE /\ handler' = name
          /\ status' = result.status
          /\ response' = result.body

Description == "This is an amazing item that has a long description"

\* ---- POST /items

create_item_errors(r) == BodyErrors(r.body, Item_errors(<<"body">>, BodyItem(r.body)))

create_item_result(item) == Ok(item)

create_item ==
  \E r \in Routed["create_item"] :
    /\ Serve(r, "create_item", create_item_errors(r),
             create_item_result(Item(BodyItem(r.body))))
    /\ UNCHANGED fake_items_db

\* ---- GET /

root_result == Ok([message |-> "Hello world"])

root ==
  \E r \in Routed["root"] :
    /\ Serve(r, "root", {}, root_result)
    /\ UNCHANGED fake_items_db

\* ---- GET /items/{item_id}

ReadItemIdGt == 0

ReadItemIdLe == 1000

SizeGe == -10

\* lt=10.5, in halves
SizeLtHalves == 21

SizeErrors(loc, o) ==
  IF o = None THEN {}
  ELSE IF ~IsFloat(o[1]) THEN {Err(loc, "type_error.float")}
  ELSE IF FloatOf(o[1]) < 2 * SizeGe THEN {Err(loc, "value_error.number.not_ge")}
  ELSE IF FloatOf(o[1]) >= SizeLtHalves THEN {Err(loc, "value_error.number.not_lt")}
  ELSE {}

\* read_item with item_id declared ge=0 in place of gt=0
read_item_errors_ge(r) ==
  IntErrors(<<"path", "item_id">>, r.path[2], FALSE, ReadItemIdGt, ReadItemIdLe)
    \cup SizeErrors(<<"query", "size">>, r.query.size)
    \cup BoolErrors(<<"query", "short">>, r.query.short)

read_item_errors(r) ==
  IntErrors(<<"path", "item_id">>, r.path[2], TRUE, ReadItemIdGt, ReadItemIdLe)
    \cup SizeErrors(<<"query", "size">>, r.query.size)
    \cup BoolErrors(<<"query", "short">>, r.query.short)

read_item_result(item_id, q, short) ==
  Ok([item_id |-> item_id]
       @@ (IF TruthyStr(q) THEN [q |-> q[1]] ELSE <<>>)
       @@ (IF ~short THEN [description |-> Description] ELSE <<>>))

read_item ==
  \E r \in Routed["read_item"] :
    /\ Serve(r, "read_item", read_item_errors(r),
             read_item_result(r.path[2].n, r.query.q, BoolValue(r.query.short)))
    /\ UNCHANGED fake_items_db

\* ---- GET /shots/{shot_id}

read_user_item_errors(r) ==
  IF r.query.needy = None THEN {Err(<<"query", "needy">>, "value_error.missing")}
  ELSE {}

read_user_item_result(shot_id, needy) == Ok([shot_id |-> shot_id, needy |-> needy])

read_user_item ==
  \E r \in Routed["read_user_item"] :
    /\ Serve(r, "read_user_item", read_user_item_errors(r),
             read_user_item_result(r.path[2], r.query.needy[1]))
    /\ UNCHANGED fake_items_db

\* ---- PUT /items/{item_id}

UpdateItemIdGe == 0

UpdateItemIdLe == 1000

\* update_item with item_id declared gt=0 in place of ge=0
update_item_errors_gt(r) ==
  IntErrors(<<"path", "item_id">>, r.path[2], TRUE, UpdateItemIdGe, UpdateItemIdLe)
    \cup (IF r.body.item = None THEN {}
          ELSE Item_errors(<<"body", "item">>, r.body.item[1]))
    \cup (IF r.body.user = None THEN {}
          ELSE User_errors(<<"body", "user">>, r.body.user[1]))
    \cup (IF r.body.importance = None
          THEN {Err(<<"body", "importance">>, "value_error.missing")}
          ELSE {})

update_item_errors(r) ==
  IntErrors(<<"path", "item_id">>, r.path[2], FALSE, UpdateItemIdGe, UpdateItemIdLe)
    \cup (IF r.body.item = None THEN {}
          ELSE Item_errors(<<"body", "item">>, r.body.item[1]))
    \cup (IF r.body.user = None THEN {}
          ELSE User_errors(<<"body", "user">>, r.body.user[1]))
    \cup (IF r.body.importance = None
          THEN {Err(<<"body", "importance">>, "value_error.missing")}
          ELSE {})

update_item_result(item_id, q, item, user, importance) ==
  Ok([item_id |-> item_id]
       @@ (IF TruthyStr(q) THEN [q |-> q[1]] ELSE <<>>)
       @@ (IF TruthyModel(item) THEN [item |-> item[1]] ELSE <<>>)
       @@ (IF TruthyModel(user) THEN [user |-> user[1]] ELSE <<>>)
       @@ (IF TruthyInt(importance) THEN [importance |-> importance] ELSE <<>>))

update_item ==
  \E r \in Routed["update_item"] :
    /\ Serve(r, "update_item", update_item_errors(r),
             update_item_result(
               r.path[2].n, r.query.q,
               IF r.body.item = None THEN None ELSE Some(Item(r.body.item[1])),
               IF r.body.user = None THEN None ELSE Some(User(r.body.user[1])),
               r.body.importance[1]))
    /\ UNCHANGED fake_items_db

\* ---- POST /shots

create_shots_errors(r) == BodyErrors(r.body, Shot_errors(<<"body">>, r.body))

create_shots_result(shot) == Ok(shot)

create_shots ==
  \E r \in Routed["create_shots"] :
    /\ Serve(r, "create_shots", create_shots_errors(r), create_shots_result(Shot(r.body)))
    /\ UNCHANGED fake_items_db

\* ---- PUT /shots/{shot_id}

update_shots_errors(r) ==
  (IF IsUuid(r.path[2]) THEN {} ELSE {Err(<<"path", "shot_id">>, "type_error.uuid")})
    \cup DateErrors(<<"body", "start_datetime">>, r.body.start_datetime)
    \cup DateErrors(<<"body", "end_datetime">>, r.body.end_datetime)

\* datetime + timedelta: a TypeError when either is None, an OverflowError
\* when the sum leaves the range of datetime; the sum keeps the offset
DatetimeAdd(d, delta) ==
  IF d = None \/ delta = None THEN [exc |-> "TypeError", value |-> None]
  ELSE IF d[1].t + delta[1] \notin 0..MaxInstant
  THEN [exc |-> "OverflowError", value |-> None]
  ELSE [exc |-> "", value |-> Some([t |-> d[1].t + delta[1], aware |-> d[1].aware])]

\* datetime - datetime: a TypeError when the left one is None, or when one
\* carries an offset and the other does not
DatetimeSub(e, d) ==
  IF e = None \/ e[1].aware # d.aware THEN [exc |-> "TypeError", value |-> None]
  ELSE [exc |-> "", value |-> Some(e[1].t - d.t)]

update_shots_result(shot_id, start_datetime, end_datetime, repeat_at, process_after) ==
  LET start_process == DatetimeAdd(start_datetime, process_after) IN
  IF start_process.exc # "" THEN Raised(start_process.exc)
  ELSE LET duration == DatetimeSub(end_datetime, start_process.value[1]) IN
       IF duration.exc # "" THEN Raised(duration.exc)
       ELSE Ok([shot_id |-> shot_id,
                start_datetime |-> start_datetime,
                end_datetime |-> end_datetime,
                repeat_at |-> repeat_at,
                process_after |-> process_after,
                start_process |-> start_process.value[1],
                duration |-> duration.value[1]])

update_shots ==
  \E r \in Routed["update_shots"] :
    /\ Serve(r, "update_shots", update_shots_errors(r),
             update_shots_result(UuidOf(r.path[2]), DateOf(r.body.start_datetime),
                                 DateOf(r.body.end_datetime), r.body.repeat_at,
                                 r.body.process_after))
    /\ UNCHANGED fake_items_db

\* ---- GET /items

DefaultSkip == 0

DefaultLimit == 10

Min(a, b) == IF a < b THEN a ELSE b

Max(a, b) == IF a > b THEN a ELSE b

\* a slice index as Python clamps it: a negative one counts from the end
SliceIndex(i, n) == IF i < 0 THEN Max(i + n, 0) ELSE Min(i, n)

\* seq[start:stop]
PySlice(seq, start, stop) ==
  SubSeq(seq, SliceIndex(start, Len(seq)) + 1, SliceIndex(stop, Len(seq)))

read_item_with_params_errors(r) ==
  PlainIntErrors(<<"query", "skip">>, r.query.skip)
    \cup PlainIntErrors(<<"query", "limit">>, r.query.limit)

IntValue(o, default) == IF o = None THEN default ELSE o[1].n

\* the slice fake_items_db[skip : limit], its stop not offset by skip
read_item_with_params_result_stop(db, skip, limit) == Ok(PySlice(db, skip, limit))

read_item_with_params_result(db, skip, limit) == Ok(PySlice(db, skip, skip + limit))

\* a handler that cuts the page out of the list: del fake_items_db[skip : skip + limit]
read_item_with_params_del ==
  \E r \in Routed["read_item_with_params"] :
    LET skip == IntValue(r.query.skip, DefaultSkip)
        limit == IntValue(r.query.limit, DefaultLimit)
        n == Len(fake_items_db)
    IN /\ Serve(r, "read_item_with_params", read_item_with_params_errors(r),
                read_item_with_params_result(fake_items_db, skip, limit))
       /\ fake_items_db' =
            IF read_item_with_params_errors(r) # {} THEN fake_items_db
            ELSE IF SliceIndex(skip, n) >= SliceIndex(skip + limit, n) THEN fake_items_db
            ELSE SubSeq(fake_items_db, 1, SliceIndex(skip, n))
                   \o SubSeq(fake_items_db, SliceIndex(skip + limit, n) + 1, n)

read_item_with_params ==
  \E r \in Routed["read_item_with_params"] :
    /\ Serve(r, "read_item_with_params", read_item_with_params_errors(r),
             read_item_with_params_result(fake_items_db,
                                          IntValue(r.query.skip, DefaultSkip),
                                          IntValue(r.query.limit, DefaultLimit)))
    /\ UNCHANGED fake_items_db

\* ---- GET /users/me

read_user_me_result == Ok([user_id |-> Str("the current user")])

read_user_me ==
  \E r \in Routed["read_user_me"] :
    /\ Serve(r, "read_user_me", {}, read_user_me_result)
    /\ UNCHANGED fake_items_db

\* ---- GET /users/{user_id}/items/{item_id}

QMinLength == 3

QMaxLength == 50

read_user_item2_errors(r) ==
  PlainIntErrors(<<"path", "user_id">>, Some(r.path[2]))
    \cup (IF r.query.q = None THEN {}
          ELSE IF TextLen(r.query.q[1]) < QMinLength
          THEN {Err(<<"query", "q">>, "value_error.any_str.min_length")}
          ELSE IF TextLen(r.query.q[1]) > QMaxLength
          THEN {Err(<<"query", "q">>, "value_error.any_str.max_length")}
          ELSE {})
    \cup BoolErrors(<<"query", "short">>, r.query.short)

read_user_item2_result(user_id, item_id, q, short) ==
  Ok([item_id |-> item_id, owner_id |-> user_id]
       @@ (IF TruthyStr(q) THEN [q |-> q[1]] ELSE <<>>)
       @@ (IF ~short THEN [description |-> Description] ELSE <<>>))

read_user_item2 ==
  \E r \in Routed["read_user_item2"] :
    /\ Serve(r, "read_user_item2", read_user_item2_errors(r),
             read_user_item2_result(r.path[2].n, r.path[4], r.query.q,
                                    BoolValue(r.query.short)))
    /\ UNCHANGED fake_items_db

\* ---- GET /users/{user_id}

read_user_result(user_id) == Ok([user_id |-> user_id])

read_user ==
  \E r \in Routed["read_user"] :
    /\ Serve(r, "read_user", {}, read_user_result(r.path[2]))
    /\ UNCHANGED fake_items_db

\* ---- GET /models/{model_name}

get_model_errors(r) ==
  IF r.path[2].kind = "str" /\ r.path[2].s \in ModelName THEN {}
  ELSE {Err(<<"path", "model_name">>, "type_error.enum")}

\* get_model with its second test on "resnet" in place of "lenet"
get_model_result_resnet(model_name) ==
  IF model_name = "alexnet"
  THEN Ok([model_name |-> model_name, message |-> "Deep Learning FTW!"])
  ELSE IF model_name = "resnet"
  THEN Ok([model_name |-> model_name, message |-> "LeCNN all the images"])
  ELSE Ok([model_name |-> model_name, message |-> "Have some residuals"])

get_model_result(model_name) ==
  IF model_name = "alexnet"
  THEN Ok([model_name |-> model_name, message |-> "Deep Learning FTW!"])
  ELSE IF model_name = "lenet"
  THEN Ok([model_name |-> model_name, message |-> "LeCNN all the images"])
  ELSE Ok([model_name |-> model_name, message |-> "Have some residuals"])

get_model ==
  \E r \in Routed["get_model"] :
    /\ Serve(r, "get_model", get_model_errors(r), get_model_result(r.path[2].s))
    /\ UNCHANGED fake_items_db

\* ---- GET /files/{file_path:path}

read_file_result(file_path) == Ok([file_path |-> file_path])

read_file ==
  \E r \in Routed["read_file"] :
    /\ Serve(r, "read_file", {}, read_file_result(Tail(r.path)))
    /\ UNCHANGED fake_items_db

\* ---- POST /index-weights/

NamedKeys ==
  {"name", "description", "price", "tax", "thumbnail_url", "image_url", "item",
   "user", "importance", "start_datetime", "end_datetime", "repeat_at",
   "process_after"}

\* dict[int, float]: every key of the JSON object must read as an int
create_index_weights_errors(r) ==
  BodyErrors(r.body,
    {Err(<<"body", k>>, "type_error.integer") : k \in {n \in NamedKeys : r.body[n] # None}}
      \cup {Err(<<"body", e[1]>>, "type_error.integer") :
              e \in {w \in r.body.weights : ~IsInt(w[1])}})

create_index_weights_result(weights) == Ok(weights)

create_index_weights ==
  \E r \in Routed["create_index_weights"] :
    /\ Serve(r, "create_index_weights", create_index_weights_errors(r),
             create_index_weights_result({<<e[1].n, e[2]>> : e \in r.body.weights}))
    /\ UNCHANGED fake_items_db

\* ---- GET /header

get_header_result(user_agent, api_key) ==
  Ok(("User-Agent" :> user_agent) @@ ("api-key" :> api_key))

get_header ==
  \E r \in Routed["get_header"] :
    /\ Serve(r, "get_header", {}, get_header_result(r.headers.user_agent, r.headers.api_key))
    /\ UNCHANGED fake_items_db

\* ---- requests no route serves

unrouted ==
  \E e \in {"405", "307", "404"} :
    \E r \in Routed[e] :
      /\ request' = r
      /\ handler' = "none"
      /\ status' = CASE e = "405" -> 405 [] e = "307" -> 307 [] OTHER -> 404
      /\ response' = IF e = "307" THEN [location |-> SlashToggled(r.path)]
                     ELSE [detail |-> {}]
      /\ UNCHANGED fake_items_db

Next ==
  \/ create_item
  \/ root
  \/ read_item
  \/ read_user_item
  \/ update_item
  \/ create_shots
  \/ update_shots
  \/ read_item_with_params
  \/ read_user_me
  \/ read_user_item2
  \/ read_user
  \/ get_model
  \/ read_file
  \/ create_index_weights
  \/ get_header
  \/ unrouted

Spec == Init /\ [][Next]_vars

(* ------------------------------------------------------------ claims --- *)

Served == status # 0

Endpoints == {Routes[i].endpoint : i \in 1..Len(Routes)}

\* the last request went to the route `method /first/{x}`
OnRoute2(method, first) ==
  /\ request.method = method
  /\ Len(request.path) = 2
  /\ request.path[1] = Str(first)
  /\ request.path[2] # Str("")

Rejected == status = 422 /\ handler = "none"

Ran(name) == status = 200 /\ handler = name

\* C1: every request to a declared route ends in a success response or in a
\* validation error, also PUT /shots/{shot_id} with optional body fields
\* omitted. The code violates it: update_shots raises on None operands.
C1_SuccessOrValidationError ==
  (Served /\ Endpoint(request) \in Endpoints) => (status = 200 \/ Rejected)

\* C2 as stated: GET /items/{item_id} with an integer item_id is rejected,
\* without running read_item, when item_id <= 0 or item_id > 1000, and else
\* read_item runs and the response contains item_id.
C2_Original ==
  (OnRoute2("GET", "items") /\ IsInt(request.path[2])) =>
    LET item_id == request.path[2].n IN
    IF item_id <= 0 \/ item_id > 1000 THEN Rejected
    ELSE Ran("read_item") /\ response.item_id = item_id

\* the query parameters size and short of the last request are valid
C2_QueryValid ==
  /\ \/ request.query.size = None
     \/ /\ request.query.size[1].kind \in {"int", "half"}
        /\ FloatOf(request.query.size[1]) >= -20
        /\ FloatOf(request.query.size[1]) < 21
  /\ \/ request.query.short = None
     \/ request.query.short[1] \in BoolTrue \cup BoolFalse

\* C2, amended: GET /items/{item_id} with an integer item_id is rejected,
\* without running read_item, when item_id <= 0 or item_id > 1000; when
\* 0 < item_id <= 1000 and the query parameters size and short are valid,
\* read_item runs and the response contains item_id.
C2_ItemIdRange ==
  (OnRoute2("GET", "items") /\ IsInt(request.path[2])) =>
    LET item_id == request.path[2].n IN
    IF item_id <= 0 \/ item_id > 1000 THEN Rejected
    ELSE C2_QueryValid => (Ran("read_item") /\ response.item_id = item_id)

C2_Witness ==
  /\ OnRoute2("GET", "items")
  /\ request.path[2] = Num(1000)
  /\ Ran("read_item")
  /\ response.item_id = 1000

\* C3: POST /items with an Item body whose price is <= 0 is rejected without
\* running create_item; with price > 0 and the other fields valid (a name,
\* a description of at most 300 characters if any) the response is that Item.
C3_PricePositive ==
  (request.method = "POST" /\ request.path = <<Str("items")>>
     /\ request.body.present /\ request.body.price # None) =>
    IF request.body.price[1] <= 0 THEN Rejected
    ELSE (request.body.name # None
          /\ (request.body.description = None
              \/ Len(request.body.description[1]) <= 300)) =>
         /\ Ran("create_item")
         /\ response = [name |-> request.body.name[1],
                        description |-> request.body.description,
                        price |-> request.body.price[1],
                        tax |-> request.body.tax]

C3_Witness ==
  /\ request.method = "POST" /\ request.path = <<Str("items")>>
  /\ request.body.price = Some(1)
  /\ Ran("create_item")
  /\ response.price = 1

\* C4: PUT /shots/{shot_id} with start_datetime, end_datetime and
\* process_after all supplied answers with start_process = start_datetime +
\* process_after and duration = end_datetime - start_process, and echoes
\* shot_id, start_datetime, end_datetime, repeat_at and process_after. The
\* code violates it: the arithmetic raises for some supplied values.
C4_ShotArithmetic ==
  (OnRoute2("PUT", "shots") /\ request.path[2] = Str(CanonicalUuid)
     /\ request.body.start_datetime # None /\ request.body.start_datetime[1].valid
     /\ request.body.end_datetime # None /\ request.body.end_datetime[1].valid
     /\ request.body.process_after # None) =>
    /\ Ran("update_shots")
    /\ response.start_process.t
         = request.body.start_datetime[1].t + request.body.process_after[1]
    /\ response.duration = request.body.end_datetime[1].t - response.start_process.t
    /\ response.shot_id = CanonicalUuid
    /\ response.start_datetime[1].t = request.body.start_datetime[1].t
    /\ response.end_datetime[1].t = request.body.end_datetime[1].t
    /\ response.repeat_at = request.body.repeat_at
    /\ response.process_after = request.body.process_after

\* skip and limit of the last request, with their defaults
C5_Skip == IF request.query.skip = None THEN 0 ELSE request.query.skip[1].n

C5_Limit == IF request.query.limit = None THEN 10 ELSE request.query.limit[1].n

C5_IsPage ==
  /\ request.method = "GET" /\ request.path = <<Str("items")>>
  /\ request.query.skip # None => IsInt(request.query.skip[1])
  /\ request.query.limit # None => IsInt(request.query.limit[1])

\* C5: GET /items with skip >= 0 and limit >= 0 answers with the entries of
\* [Foo, Bar, Baz] at positions skip .. min(skip+limit, 3)-1 in order, so
\* with at most limit entries; all three by default, [Foo, Bar] for 0 and 2.
C5_Pagination ==
  (C5_IsPage /\ C5_Skip >= 0 /\ C5_Limit >= 0) =>
    LET last == (IF C5_Skip + C5_Limit < 3 THEN C5_Skip + C5_Limit ELSE 3) - 1
        names == <<"Foo", "Bar", "Baz">>
    IN /\ Ran("read_item_with_params")
       /\ Len(response) = (IF last >= C5_Skip THEN last - C5_Skip + 1 ELSE 0)
       /\ \A i \in 1..Len(response) :
            response[i] = [item_name |-> names[C5_Skip + i]]
       /\ Len(response) <= C5_Limit
       /\ (C5_Skip >= 3 \/ C5_Limit = 0) => response = <<>>
       /\ (request.query.skip = None /\ request.query.limit = None) =>
            response = <<[item_name |-> "Foo"], [item_name |-> "Bar"],
                         [item_name |-> "Baz"]>>
       /\ (C5_Skip = 0 /\ C5_Limit = 2) =>
            response = <<[item_name |-> "Foo"], [item_name |-> "Bar"]>>

C5_Witness ==
  /\ C5_IsPage
  /\ C5_Skip = 1 /\ C5_Limit = 1
  /\ Ran("read_item_with_params")
  /\ response = <<[item_name |-> "Bar"]>>

\* C6: GET /models/{model_name} accepts exactly alexnet, resnet and lenet,
\* echoes model_name, and answers with three pairwise distinct messages:
\* "Deep Learning FTW!", "Have some residuals" and "LeCNN all the images".
C6_ModelMessages ==
  OnRoute2("GET", "models") =>
    LET m == request.path[2] IN
    IF m \in {Str("alexnet"), Str("resnet"), Str("lenet")}
    THEN /\ Ran("get_model")
         /\ response.model_name = m.s
         /\ response.message =
              (CASE m.s = "alexnet" -> "Deep Learning FTW!"
                 [] m.s = "lenet" -> "LeCNN all the images"
                 [] m.s = "resnet" -> "Have some residuals")
    ELSE Rejected

C6_Witness ==
  /\ OnRoute2("GET", "models")
  /\ request.path[2] = Str("lenet")
  /\ response.message = "LeCNN all the images"

\* C7: after any sequence of requests fake_items_db still holds Foo, Bar and
\* Baz, and the answer of the one handler that reads it depends on the
\* request alone, not on the requests served before.
C7_ListNeverMutated ==
  /\ fake_items_db = <<[item_name |-> "Foo"], [item_name |-> "Bar"],
                       [item_name |-> "Baz"]>>
  /\ handler = "read_item_with_params" =>
       response = PySlice(<<[item_name |-> "Foo"], [item_name |-> "Bar"],
                            [item_name |-> "Baz"]>>,
                          C5_Skip, C5_Skip + C5_Limit)

C7_Witness ==
  /\ Ran("read_item_with_params")
  /\ Len(response) = 3
  /\ Len(fake_items_db) = 3

\* C8: a valid PUT /items/{item_id} is answered with a mapping that holds
\* item_id and each of q, item, user and importance that the request
\* supplied, importance for every integer and q for every string. The code
\* violates it: it leaves out importance 0 and an empty q.
C8_PassThrough ==
  (OnRoute2("PUT", "items") /\ Ran("update_item")) =>
    /\ response.item_id = request.path[2].n
    /\ request.query.q # None =>
         ("q" \in DOMAIN response /\ response.q = request.query.q[1])
    /\ request.body.item # None => "item" \in DOMAIN response
    /\ request.body.user # None => "user" \in DOMAIN response
    /\ "importance" \in DOMAIN response
    /\ response.importance = request.body.importance[1]

\* C9: GET /users/me always reaches read_user_me, which answers "the current
\* user", and never read_user with user_id "me"; every other GET /users/{x}
\* reaches read_user, which echoes x.
C9_UsersMeFirst ==
  /\ (OnRoute2("GET", "users") /\ request.path[2] = Str("me")) =>
       (Ran("read_user_me") /\ response.user_id = Str("the current user"))
  /\ handler = "read_user" => request.path[2] # Str("me")
  /\ (OnRoute2("GET", "users") /\ request.path[2] # Str("me")) =>
       (Ran("read_user") /\ response.user_id = request.path[2])

C9_Witness ==
  /\ request.method = "GET"
  /\ request.path = <<Str("users"), Str("me")>>
  /\ handler = "read_user_me"

\* the last answer reports a validation error at the path parameter item_id
C10_ItemIdRejected ==
  /\ status = 422
  /\ \E e \in response.detail : e.loc = <<"path", "item_id">>

\* C10 as stated: PUT /items/{item_id} rejects exactly when item_id < 0 or
\* item_id > 1000 and runs update_item otherwise, GET /items/{item_id}
\* rejects item_id = 0 and every integer outside 1..1000.
C10_Original ==
  /\ (OnRoute2("PUT", "items") /\ IsInt(request.path[2])) =>
       IF request.path[2].n < 0 \/ request.path[2].n > 1000 THEN Rejected
       ELSE Ran("update_item")
  /\ (OnRoute2("GET", "items") /\ IsInt(request.path[2])) =>
       IF request.path[2].n < 1 \/ request.path[2].n > 1000 THEN Rejected
       ELSE Ran("read_item")

\* the body of the last request is valid for update_item
C10_BodyValid ==
  /\ request.body.importance # None
  /\ request.body.item # None =>
       LET j == request.body.item[1] IN
       /\ j.name # None
       /\ j.price # None /\ j.price[1] > 0
       /\ j.description # None => Len(j.description[1]) <= 300
  /\ request.body.user # None => request.body.user[1].username # None

\* C10, amended: PUT /items/{item_id} reports a validation error for
\* item_id exactly when item_id < 0 or item_id > 1000, GET /items/{item_id}
\* exactly when item_id <= 0 or item_id > 1000; with the rest of the request
\* valid, PUT runs update_item for item_id = 0 and both run their handler
\* for 1..1000, and both reject every other integer.
C10_ItemIdBounds ==
  /\ (OnRoute2("PUT", "items") /\ IsInt(request.path[2])) =>
       LET n == request.path[2].n IN
       /\ C10_ItemIdRejected <=> (n < 0 \/ n > 1000)
       /\ (n < 0 \/ n > 1000) => Rejected
       /\ (0 <= n /\ n <= 1000 /\ C10_BodyValid) => Ran("update_item")
  /\ (OnRoute2("GET", "items") /\ IsInt(request.path[2])) =>
       LET n == request.path[2].n IN
       /\ C10_ItemIdRejected <=> (n <= 0 \/ n > 1000)
       /\ (n <= 0 \/ n > 1000) => Rejected
       /\ (1 <= n /\ n <= 1000 /\ C2_QueryValid) => Ran("read_item")

C10_Witness ==
  /\ OnRoute2("PUT", "items")
  /\ request.path[2] = Num(0)
  /\ Ran("update_item")

====
